---- MODULE Spec2Model ----
(***************************************************************************)
(* certidude/auth.py: request authentication (Kerberos, LDAP, PAM),        *)
(* account-info enrichment (posix, ldap) and authorization (whitelist,     *)
(* posix group, ldap group) as decorators around a protected operation.    *)
(*                                                                         *)
(* Python strings are sequences of tokens: <<"alice", "@", "example.com">> *)
(* is "alice@example.com".  A token is an indivisible run of characters    *)
(* that holds no separator ("@", ":", ",", " "); the separators are tokens *)
(* of their own, so split, "in" and "+" act as they do on characters.      *)
(***************************************************************************)
EXTENDS Integers, Sequences, FiniteSets, TLC

\* Bounds of the model.
MaxGates == 2      \* authorization decorators stacked under authenticate
MaxServers == 2    \* entries of config.LDAP_SERVERS
MaxLen == 4        \* tokens of a raw principal given to User()

\* Python's None where a string may stand (an attribute of User), as a value
\* comparable with strings, and where an object may stand (context.get(key)).
None == <<"<None>">>
NoneObj == [type |-> "NoneType"]

\* The empty string.
Empty == << >>

\* t in s, for a one-token t.
Contains(s, t) == \E i \in 1..Len(s) : s[i] = t

\* Index of the first token t of s; 0 when there is none.
RECURSIVE FindFrom(_, _, _)
FindFrom(s, t, i) ==
    IF i > Len(s) THEN 0
    ELSE IF s[i] = t THEN i
    ELSE FindFrom(s, t, i + 1)

Find(s, t) == FindFrom(s, t, 1)

\* s.split(t): the list of the pieces of s between the occurrences of t.
RECURSIVE Split(_, _)
Split(s, t) ==
    LET i == Find(s, t) IN
    IF i = 0 THEN << s >>
    ELSE << SubSeq(s, 1, i - 1) >> \o Split(SubSeq(s, i + 1, Len(s)), t)

\* s.split(t, 1): at most one cut, at the first occurrence of t.
Split1(s, t) ==
    LET i == Find(s, t) IN
    IF i = 0 THEN << s >>
    ELSE << SubSeq(s, 1, i - 1), SubSeq(s, i + 1, Len(s)) >>

\* Python truth of a string or None.
Truthy(s) == s # None /\ s # Empty

\* The result of a call: a value, or the exception it raised.
Ok(v) == [ok |-> TRUE, val |-> v]
Raise(e) == [ok |-> FALSE, exc |-> e]

\* User.__init__: "name, domain = name.split('@')" unpacks exactly two pieces.
User(name) ==
    IF Contains(name, "@")
    THEN LET parts == Split(name, "@") IN
         IF Len(parts) = 2
         THEN Ok([type |-> "User", mail |-> name, name |-> parts[1],
                  domain |-> parts[2], given_name |-> None, surname |-> None])
         ELSE Raise("ValueError")
    ELSE Ok([type |-> "User", mail |-> None, name |-> name, domain |-> None,
             given_name |-> None, surname |-> None])

\* User.__repr__: the formatted name, or self.mail as it is (None included).
User_repr(u) ==
    IF Truthy(u.given_name) /\ Truthy(u.surname)
    THEN u.given_name \o <<" ">> \o u.surname \o <<" ", "<">> \o u.mail \o <<">">>
    ELSE u.mail

\* "%s" % x: str(x); a __repr__ that returns None raises TypeError.
Format(x) ==
    IF x.type = "NoneType" THEN Ok(<<"None">>)
    ELSE IF User_repr(x) = None THEN Raise("TypeError")
    ELSE Ok(User_repr(x))

(***************************************************************************)
(* Configuration (certidude.config, certidude.constants): read-only,       *)
(* fixed when the module is imported.                                      *)
(***************************************************************************)

\* Values config.AUTHENTICATION_BACKENDS may hold; the code compares the
\* set as a whole, so a set of two backends is not a recognized value.
AuthenticationBackends == {{"kerberos"}, {"pam"}, {"ldap"}, {"kerberos", "ldap"}}

\* Values config.ACCOUNTS_BACKEND may hold.
AccountsBackends == {"posix", "ldap", "nis"}

\* Values config.AUTHORIZATION_BACKEND may hold.
AuthorizationBackends == {"whitelist", "posix", "ldap", "nis"}

\* Values config.LDAP_SERVERS may hold: lists of server URIs.
LdapServerLists == {[i \in 1..n |-> i] : n \in 0..MaxServers}

\* constants.DOMAIN
constants_DOMAIN == <<"example.com">>

\* config.ADMINS_GROUP
ADMINS_GROUP == "admins"

\* config.ADMIN_WHITELIST: a static set of str.
Str(s) == [type |-> "str", s |-> s]
ADMIN_WHITELIST == {Str(<<"alice", "@", "example.com">>), Str(<<"alice">>)}

\* a == b in Python.  User defines neither __eq__ nor __hash__, so a User
\* equals only itself and no str equals a User; two str are equal by content.
PyEq(a, b) == a.type = "str" /\ b.type = "str" /\ a.s = b.s

\* x in container
PyIn(x, container) == \E w \in container : PyEq(x, w)

\* Group names the member_of decorators of the application name.
GroupNames == {"ops"}

\* The authorization decorators stacked between authenticate and the
\* protected operation, outermost first: authorize_admin or member_of(g).
Gate == {[kind |-> "authorize_admin", group |-> ADMINS_GROUP]}
            \cup {[kind |-> "member_of", group |-> g] : g \in GroupNames}
GateStacks == UNION {[1..n -> Gate] : n \in 0..MaxGates}

(***************************************************************************)
(* Requests.                                                               *)
(***************************************************************************)

\* A Basic credential: the base64 text of payload, or text that is no base64.
B64(payload) == [valid |-> TRUE, data |-> payload]
NotB64 == [valid |-> FALSE, data |-> Empty]

\* b64decode(token)
b64decode(token) == IF token.valid THEN Ok(token.data) ELSE Raise("TypeError")

\* An Authorization header "<scheme> <token>".
Header(scheme, token) == [type |-> "str", scheme |-> scheme, token |-> token]

\* startswith, accepting the Negotiate scheme as well.
StartsWithBasic_or_Negotiate(auth) == auth.scheme \in {"Basic", "Negotiate"}

\* req.auth.startswith("Basic ")
StartsWithBasic(auth) == auth.scheme = "Basic"

\* Values of req.auth: None when the request has no Authorization header.
Usernames == {<<"alice">>, <<"alice", "@", "example.com">>,
              <<"eve", "@", "a", "@", "b">>}
AuthHeaders ==
    {NoneObj, Header("Negotiate", B64(<<"ticket">>)),
     Header("Basic", NotB64), Header("Basic", B64(<<"alice">>))}
        \cup {Header("Basic", B64(u \o <<":", "secret">>)) : u \in Usernames}

\* Principals kerberos.authGSSServerUserName may report.
KerberosPrincipals == {<<"alice", "@", "EXAMPLE.COM">>, <<"bob", "@", "EXAMPLE.COM">>}

(***************************************************************************)
(* State.                                                                  *)
(***************************************************************************)
VARIABLES
    config,        \* certidude.config
    optional,      \* authenticate(optional=...): login_optional or login_required
    gates,         \* the authorization decorators under authenticate
    pc,            \* position of the request in the decorated call chain
    gi,            \* the gate of gates the call chain has reached
    req,           \* the request: auth header, "authenticate" query parameter
    context,       \* req.context: a dict, key -> value
    resp_headers,  \* headers appended to the response
    gss,           \* the GSSAPI exchange: [result] after authGSSServerStep
    outcome,       \* how the request ended: "returned" or the exception
    log,           \* calls made to the providers and to the operation, in order
    raw,           \* the raw principal given to User(), when it is called alone
    identity       \* what User(raw) gave: the User, or the exception

vars == <<config, optional, gates, pc, gi, req, context, resp_headers, gss,
          outcome, log, raw, identity>>

\* What no step of a request changes.
fixed == <<config, optional, gates, raw, identity>>

\* dict operations on req.context
Has(key) == key \in DOMAIN context
Get(key) == IF Has(key) THEN context[key] ELSE NoneObj
Put(ctx, key, value) ==
    [k \in DOMAIN ctx \cup {key} |-> IF k = key THEN value ELSE ctx[k]]

Event(ev, arg) == [ev |-> ev, arg |-> arg]
Logged(ev) == \E i \in 1..Len(log) : log[i].ev = ev
Count(ev) == Cardinality({i \in 1..Len(log) : log[i].ev = ev})

\* A raised exception leaves the whole call chain: no decorator catches it.
Abort(exc) == /\ pc' = "done"
              /\ outcome' = exc

Init ==
    /\ config \in [AUTHENTICATION_BACKENDS : AuthenticationBackends,
                   ACCOUNTS_BACKEND : AccountsBackends,
                   AUTHORIZATION_BACKEND : AuthorizationBackends,
                   LDAP_SERVERS : LdapServerLists]
    /\ optional \in BOOLEAN
    /\ gates \in GateStacks
    /\ pc = "import"
    /\ gi = 0
    /\ req = NoneObj
    /\ context = << >>
    /\ resp_headers = << >>
    /\ gss = [state |-> "none", result |-> "none"]
    /\ outcome = "none"
    /\ log = << >>
    /\ raw = Empty
    /\ identity = NoneObj

(***************************************************************************)
(* Import time: the decorators are applied, innermost first, and each      *)
(* resolves its backend against the configuration.                         *)
(***************************************************************************)

\* member_of(group_name)(func): lines 86-91.
member_of_resolves ==
    config.AUTHORIZATION_BACKEND \in {"ldap", "posix"}

\* authorize_admin(func): lines 320-323.
authorize_admin_resolves ==
    IF config.AUTHORIZATION_BACKEND = "whitelist" THEN TRUE
    ELSE member_of_resolves

\* Any configured backend set passes for one that authenticate() knows.
authenticate_resolves_any ==
    config.AUTHENTICATION_BACKENDS # {}

\* authenticate(optional)(func): lines 291-298.
authenticate_resolves ==
    config.AUTHENTICATION_BACKENDS \in {{"kerberos"}, {"pam"}, {"ldap"}}

\* account_info(func): lines 154-159; called per request, after authentication.
account_info_resolves ==
    config.ACCOUNTS_BACKEND \in {"ldap", "posix"}

GateResolves(g) ==
    IF g.kind = "authorize_admin" THEN authorize_admin_resolves
    ELSE member_of_resolves

\* The check a resolved gate performs on a request.
GateStrategy(g) ==
    IF g.kind = "authorize_admin" /\ config.AUTHORIZATION_BACKEND = "whitelist"
    THEN "whitelist_authorize"
    ELSE IF config.AUTHORIZATION_BACKEND = "ldap" THEN "ldap_check_group_membership"
    ELSE "posix_check_group_membership"

Decorate ==
    /\ pc = "import"
    /\ IF (\A i \in 1..Len(gates) : GateResolves(gates[i])) /\ authenticate_resolves
       THEN pc' = "idle" /\ outcome' = outcome
       ELSE Abort("NotImplementedError")
    /\ UNCHANGED <<fixed, gi, req, context, resp_headers, gss, log>>

(***************************************************************************)
(* A request arrives at the decorated operation.                           *)
(***************************************************************************)

\* A directory connection: the server it was opened to and who opened it.
Conn(server, by) == [type |-> "conn", server |-> server, by |-> by]

\* req.context as the handlers before this module leave it: the caller's
\* address, and possibly a directory connection ("ldap_conn" in req.context).
InitialContexts ==
    LET base == [remote_addr |-> Str(<<"127.0.0.1">>)] IN
    {base, Put(base, "ldap_conn", Conn(0, "caller"))}

Request ==
    /\ pc = "idle"
    /\ \E auth \in AuthHeaders, p \in BOOLEAN :
          req' = [type |-> "Request", auth |-> auth, authenticate |-> p]
    /\ context' \in InitialContexts
    /\ pc' = "authenticate"
    /\ UNCHANGED <<fixed, gi, resp_headers, gss, outcome, log>>

\* The test of the query parameter, the wrong way round.
Bypass_when_asked == optional /\ req.authenticate

\* "if optional and not req.get_param_as_bool(...)": lines 165, 224, 269.
Bypass == optional /\ ~req.authenticate

\* func(resource, req, resp, ...) as authenticate and account_info call it:
\* the first authorization decorator, or the operation itself.
CallFunc == /\ pc' = "gate"
            /\ gi' = 1

\* Challenge, with the header forgotten.
Challenge_without_header(scheme) ==
    /\ resp_headers' = resp_headers
    /\ Abort("HTTPUnauthorized")

\* Lines 169-173, 230-232, 249-252, 273-274: a WWW-Authenticate header is
\* appended to the response and HTTPUnauthorized raised.
Challenge(scheme) ==
    /\ resp_headers' = Append(resp_headers, <<"WWW-Authenticate", scheme>>)
    /\ Abort("HTTPUnauthorized")

\* The test of line 207 letting an unfinished exchange through as well.
GssComplete_or_continue(result) ==
    result \in {"AUTH_GSS_COMPLETE", "AUTH_GSS_CONTINUE"}

\* Line 207: the result that lets the request go on to account_info.
GssComplete(result) == result = "AUTH_GSS_COMPLETE"

(***************************************************************************)
(* kerberos_authenticate: lines 164-216.                                   *)
(***************************************************************************)

\* Lines 165-182: the optional bypass, the missing header, authGSSServerInit.
kerberos_authenticate ==
    /\ pc = "authenticate"
    /\ config.AUTHENTICATION_BACKENDS = {"kerberos"}
    /\ IF Bypass
       THEN /\ CallFunc
            /\ UNCHANGED <<resp_headers, gss, outcome, log>>
       ELSE IF req.auth = NoneObj
       THEN /\ Challenge("Negotiate")
            /\ UNCHANGED <<gi, gss, log>>
       ELSE \E init \in {"ok", "GSSError"} :
            /\ log' = Append(log, Event("authGSSServerInit", init))
            /\ IF init = "ok"
               THEN /\ gss' = [gss EXCEPT !.state = "init"]
                    /\ pc' = "krb_step"
                    /\ outcome' = outcome
               ELSE /\ Abort("HTTPForbidden")
                    /\ gss' = gss
            /\ UNCHANGED <<gi, resp_headers>>
    /\ UNCHANGED <<fixed, req, context>>

\* Results of kerberos.authGSSServerStep: a result code, or an exception.
StepResults == {"AUTH_GSS_COMPLETE", "AUTH_GSS_CONTINUE", "AUTH_GSS_ERROR",
                "GSSError", "KrbError"}

\* Lines 184-195: authGSSServerStep; both handlers clean the context, outside
\* any try, and then raise HTTPForbidden.
kerberos_step ==
    /\ pc = "krb_step"
    /\ \E step \in StepResults :
          IF step \in {"GSSError", "KrbError"}
          THEN \E clean \in {"ok", "GSSError"} :
               /\ log' = log \o <<Event("authGSSServerStep", step),
                                  Event("authGSSServerClean", clean)>>
               /\ gss' = [gss EXCEPT !.state = "cleaned", !.result = step]
               /\ Abort(IF clean = "ok" THEN "HTTPForbidden" ELSE "GSSError")
          ELSE /\ log' = Append(log, Event("authGSSServerStep", step))
               /\ gss' = [gss EXCEPT !.result = step]
               /\ pc' = "krb_user"
               /\ outcome' = outcome
    /\ UNCHANGED <<fixed, gi, req, context, resp_headers>>

\* Lines 197-199: the principal is stored before the result is looked at.
kerberos_user ==
    /\ pc = "krb_user"
    /\ \E user \in KerberosPrincipals :
          LET u == User(user) IN
          IF u.ok
          THEN /\ context' = Put(Put(context, "user", u.val), "groups", {})
               /\ pc' = "krb_clean"
               /\ outcome' = outcome
          ELSE /\ Abort(u.exc)
               /\ context' = context
    /\ UNCHANGED <<fixed, gi, req, resp_headers, gss, log>>

\* Lines 201-205: authGSSServerClean; its failure is HTTPUnauthorized.
kerberos_clean ==
    /\ pc = "krb_clean"
    /\ \E clean \in {"ok", "GSSError"} :
          /\ log' = Append(log, Event("authGSSServerClean", clean))
          /\ gss' = [gss EXCEPT !.state = "cleaned"]
          /\ IF clean = "ok"
             THEN pc' = "krb_result" /\ outcome' = outcome
             ELSE Abort("HTTPUnauthorized")
    /\ UNCHANGED <<fixed, gi, req, context, resp_headers>>

\* Lines 207-216: only AUTH_GSS_COMPLETE goes on to account_info(func).
kerberos_result ==
    /\ pc = "krb_result"
    /\ IF GssComplete(gss.result)
       THEN /\ pc' = "account_info"
            /\ log' = Append(log, Event("authenticated", "kerberos"))
            /\ outcome' = outcome
       ELSE /\ Abort(IF gss.result = "AUTH_GSS_CONTINUE" THEN "HTTPUnauthorized"
                     ELSE "HTTPForbidden")
            /\ log' = log
    /\ UNCHANGED <<fixed, gi, req, context, resp_headers, gss>>

(***************************************************************************)
(* ldap_authenticate (lines 219-261) and pam_authenticate (lines 264-289). *)
(***************************************************************************)

\* Lines 237-239 and 279-281: the user and password of a Basic header.
\* "user, passwd = ...split(':', 1)" unpacks exactly two pieces.
BasicCredentials(auth) ==
    LET decoded == b64decode(auth.token) IN
    IF ~decoded.ok THEN decoded
    ELSE LET parts == Split1(decoded.val, ":") IN
         IF Len(parts) = 2
         THEN Ok([user |-> parts[1], passwd |-> parts[2]])
         ELSE Raise("ValueError")

\* Line 247: the name the bind is made with.
BindName(user) ==
    IF Contains(user, "@") THEN user ELSE user \o <<"@">> \o constants_DOMAIN

\* Results of conn.simple_bind_s: bound, or an ldap.LDAPError.
BindResults == {"ok", "INVALID_CREDENTIALS", "SERVER_DOWN"}

\* Lines 259-261 and 287-289: the identity is stored and enrichment called.
StoreUser(ctx, lg, user, backend) ==
    LET u == User(user) IN
    IF u.ok
    THEN /\ context' = Put(Put(ctx, "user", u.val), "groups", {})
         /\ log' = Append(lg, Event("authenticated", backend))
         /\ pc' = "account_info"
         /\ outcome' = outcome
    ELSE /\ context' = ctx
         /\ log' = lg
         /\ Abort(u.exc)

\* Lines 241-257: without "ldap_conn" in the context, the first configured
\* server is bound; an LDAPError of that bind ends the loop and the request.
LdapBind(user) ==
    IF Len(config.LDAP_SERVERS) = 0
    THEN /\ Abort("ValueError")
         /\ UNCHANGED <<context, resp_headers, log>>
    ELSE \E bind \in BindResults :
         LET server == config.LDAP_SERVERS[1]
             lg == Append(log, Event("simple_bind_s",
                       [server |-> server, who |-> BindName(user), result |-> bind]))
         IN  IF bind = "ok"
             THEN /\ StoreUser(Put(context, "ldap_conn", Conn(server, "ldap_authenticate")),
                               lg, user, "ldap")
                  /\ resp_headers' = resp_headers
             ELSE /\ Challenge("Basic")
                  /\ log' = lg
                  /\ context' = context

ldap_authenticate ==
    /\ pc = "authenticate"
    /\ config.AUTHENTICATION_BACKENDS = {"ldap"}
    /\ IF Bypass
       THEN /\ CallFunc
            /\ UNCHANGED <<context, resp_headers, outcome, log>>
       ELSE IF req.auth = NoneObj
       THEN /\ Challenge("Basic")
            /\ UNCHANGED <<gi, context, log>>
       ELSE IF ~StartsWithBasic(req.auth)
       THEN /\ Abort("HTTPForbidden")
            /\ UNCHANGED <<gi, context, resp_headers, log>>
       ELSE LET cred == BasicCredentials(req.auth) IN
            IF ~cred.ok
            THEN /\ Abort(cred.exc)
                 /\ UNCHANGED <<gi, context, resp_headers, log>>
            ELSE /\ IF ~Has("ldap_conn")
                    THEN LdapBind(cred.val.user)
                    ELSE /\ StoreUser(context, log, cred.val.user, "ldap")
                         /\ resp_headers' = resp_headers
                 /\ gi' = gi
    /\ UNCHANGED <<fixed, req, gss>>

\* Line 284: simplepam.authenticate(user, passwd, "sshd") accepts or refuses.
pam_authenticate ==
    /\ pc = "authenticate"
    /\ config.AUTHENTICATION_BACKENDS = {"pam"}
    /\ IF Bypass
       THEN /\ CallFunc
            /\ UNCHANGED <<context, resp_headers, outcome, log>>
       ELSE IF req.auth = NoneObj
       THEN /\ Challenge("Basic")
            /\ UNCHANGED <<gi, context, log>>
       ELSE IF ~StartsWithBasic(req.auth)
       THEN /\ Abort("HTTPForbidden")
            /\ UNCHANGED <<gi, context, resp_headers, log>>
       ELSE LET cred == BasicCredentials(req.auth) IN
            IF ~cred.ok
            THEN /\ Abort(cred.exc)
                 /\ UNCHANGED <<gi, context, resp_headers, log>>
            ELSE \E accepted \in BOOLEAN :
                 LET lg == Append(log, Event("simplepam.authenticate",
                               [who |-> cred.val.user, result |-> accepted]))
                 IN  /\ IF accepted
                        THEN StoreUser(context, lg, cred.val.user, "pam")
                        ELSE /\ Abort("HTTPUnauthorized")
                             /\ log' = lg
                             /\ context' = context
                     /\ UNCHANGED <<gi, resp_headers>>
    /\ UNCHANGED <<fixed, req, gss>>

(***************************************************************************)
(* account_info: lines 95-159.                                             *)
(***************************************************************************)

\* Results of pwd.getpwnam(name): the gecos field of the entry, or KeyError.
GecosFields == {Empty, <<"Alice">>, <<"Alice", " ", "Smith", ",", "Room", " ", "1">>}

\* Lines 101-105: names from the first comma-separated field of gecos, and
\* the mail address made of the user name and the domain.
posix_enrich(user, gecos) ==
    LET full_name == Split(gecos, ",")[1]
        named == IF Truthy(full_name) /\ Contains(full_name, " ")
                 THEN [user EXCEPT !.given_name = Split1(full_name, " ")[1],
                                   !.surname = Split1(full_name, " ")[2]]
                 ELSE user
    IN  [named EXCEPT !.mail = user.name \o <<"@">> \o constants_DOMAIN]

\* Lines 98-106.
posix_account_info ==
    /\ pc = "account_info"
    /\ config.ACCOUNTS_BACKEND = "posix"
    /\ \E entry \in GecosFields \cup {<<"KeyError">>} :
          IF entry = <<"KeyError">>
          THEN /\ Abort("KeyError")
               /\ UNCHANGED <<gi, context, log>>
          ELSE /\ context' = [context EXCEPT !["user"] = posix_enrich(@, entry)]
               /\ log' = Append(log, Event("enriched", "posix"))
               /\ CallFunc
               /\ outcome' = outcome
    /\ UNCHANGED <<fixed, req, resp_headers, gss>>

\* What opening the service's own connection meets: no /etc/krb5.keytab,
\* no KRB5CCNAME, a failed SASL bind, or a bound connection.
ServiceBindResults == {"ok", "no_keytab", "no_ticket_cache", "LDAPError"}

\* Lines 112-127: a connection is opened only if the context holds none.
ldap_account_info ==
    /\ pc = "account_info"
    /\ config.ACCOUNTS_BACKEND = "ldap"
    /\ IF Has("ldap_conn")
       THEN /\ pc' = "ldap_search"
            /\ UNCHANGED <<context, outcome, log>>
       ELSE IF Len(config.LDAP_SERVERS) = 0
       THEN /\ Abort("ValueError")
            /\ UNCHANGED <<context, log>>
       ELSE \E bind \in ServiceBindResults :
            LET server == config.LDAP_SERVERS[1] IN
            IF bind = "no_keytab"
            THEN /\ Abort("NotImplementedError")
                 /\ UNCHANGED <<context, log>>
            ELSE IF bind = "no_ticket_cache"
            THEN /\ Abort("ValueError")
                 /\ UNCHANGED <<context, log>>
            ELSE /\ log' = Append(log, Event("sasl_interactive_bind_s",
                               [server |-> server, result |-> bind]))
                 /\ IF bind = "ok"
                    THEN /\ context' = Put(context, "ldap_conn",
                                           Conn(server, "ldap_account_info"))
                         /\ pc' = "ldap_search"
                         /\ outcome' = outcome
                    ELSE /\ Abort("LDAPError")
                         /\ context' = context
    /\ UNCHANGED <<fixed, gi, req, resp_headers, gss>>

\* An entry of a search result: (dn, attributes).  A search reference has no dn.
Entry(dn, attrs) == [dn |-> dn, attrs |-> attrs]
Referral == Entry(None, << >>)

\* entry.get(key)
Attr(entry, key) == IF key \in DOMAIN entry.attrs THEN entry.attrs[key] ELSE None

\* Results of the search for the user: lines 130-132.
UserSearchResults ==
    LET full == Entry(<<"cn=alice,dc=example">>,
                      [cn |-> <<"Alice", " ", "Smith">>, givenName |-> <<"Alice">>,
                       sn |-> <<"Smith">>, mail |-> <<"alice", "@", "example.com">>])
        upn  == Entry(<<"cn=alice,dc=example">>,
                      [cn |-> <<"Alice", " ", "Smith">>,
                       userPrincipalName |-> <<"alice", "@", "EXAMPLE.COM">>])
        bare == Entry(<<"cn=alice,dc=example">>, [cn |-> <<"alice">>])
    IN  {<< >>, <<Referral>>, <<Referral, full>>, <<upn>>, <<bare>>}

\* x or y
PyOr(x, y) == IF Truthy(x) THEN x ELSE y

\* Lines 136-147: the attributes of a matching entry written into the User.
\* The test reads "givenname", the assignment "givenName".
ldap_enrich(user, e) ==
    LET named ==
          IF Truthy(Attr(e, "givenname")) /\ Truthy(Attr(e, "sn"))
          THEN [user EXCEPT !.given_name = Attr(e, "givenName"),
                            !.surname = Attr(e, "sn")]
          ELSE IF Contains(Attr(e, "cn"), " ")
          THEN [user EXCEPT !.given_name = Split1(Attr(e, "cn"), " ")[1],
                            !.surname = Split1(Attr(e, "cn"), " ")[2]]
          ELSE user
        mail == PyOr(Attr(e, "mail"), PyOr(Attr(e, "userPrincipalName"), None))
    IN  Put([named EXCEPT !.mail = mail], "dn", e.dn)

\* The first entry of a result that has a dn ("if not dn: continue"), or 0.
RECURSIVE FirstWithDn(_, _)
FirstWithDn(r, i) ==
    IF i > Len(r) THEN 0
    ELSE IF Truthy(r[i].dn) THEN i
    ELSE FirstWithDn(r, i + 1)

\* Lines 129-152: the user is looked up; func is called from inside the loop.
ldap_account_info_search ==
    /\ pc = "ldap_search"
    /\ \E r \in UserSearchResults :
          LET i == FirstWithDn(r, 1)
              lg == Append(log, Event("search_s", "user"))
          IN  IF i = 0
              THEN /\ Abort("ValueError")
                   /\ log' = lg
                   /\ UNCHANGED <<gi, context>>
              ELSE /\ context' = [context EXCEPT !["user"] = ldap_enrich(@, r[i])]
                   /\ log' = Append(lg, Event("enriched", "ldap"))
                   /\ CallFunc
                   /\ outcome' = outcome
    /\ UNCHANGED <<fixed, req, resp_headers, gss>>

\* Lines 154-159: an unrecognized accounts backend, met when account_info(func)
\* is evaluated in the request.
account_info_unsupported ==
    /\ pc = "account_info"
    /\ ~account_info_resolves
    /\ Abort("NotImplementedError")
    /\ UNCHANGED <<fixed, gi, req, context, resp_headers, gss, log>>

(***************************************************************************)
(* Authorization: member_of (lines 52-92), authorize_admin (lines 310-323).*)
(***************************************************************************)

AtGate(strategy) ==
    /\ pc = "gate"
    /\ gi <= Len(gates)
    /\ GateStrategy(gates[gi]) = strategy

\* The wrapped func of a gate: the next gate, or the operation.
CallNext == /\ pc' = "gate"
            /\ gi' = gi + 1

\* The whitelist is only consulted for a request that has a user.
NotWhitelisted_if_user(user) ==
    user.type # "NoneType" /\ ~PyIn(user, ADMIN_WHITELIST)

\* Line 314: "not user or user not in config.ADMIN_WHITELIST".  A User has no
\* __nonzero__ or __len__, so only None is false.
NotWhitelisted(user) ==
    user.type = "NoneType" \/ ~PyIn(user, ADMIN_WHITELIST)

\* Lines 312-318; the message of line 317 formats the user.
whitelist_authorize ==
    /\ AtGate("whitelist_authorize")
    /\ IF NotWhitelisted(Get("user"))
       THEN /\ Abort(IF Format(Get("user")).ok THEN "HTTPForbidden" ELSE "TypeError")
            /\ gi' = gi
       ELSE /\ CallNext
            /\ outcome' = outcome
    /\ UNCHANGED <<fixed, req, context, resp_headers, gss, log>>

\* Results of grp.getgrnam(group_name): the member list, or KeyError.
MemberLists == {{}, {<<"alice">>}, {<<"alice">>, <<"bob">>}}
GroupEntries == {[found |-> FALSE, members |-> {}]}
                   \cup {[found |-> TRUE, members |-> m] : m \in MemberLists}

\* The membership test made with the mail address instead of the name.
PosixMember_by_mail(user, members) == user.mail \in members

\* Line 61: "req.context.get('user').name not in members", negated.
PosixMember(user, members) == user.name \in members

\* The group is looked up only when its name is not yet in context.groups.
getgrnam_unless_recorded(lg, group_name, entry) ==
    IF Has("groups") /\ group_name \in Get("groups")
    THEN lg
    ELSE Append(lg, Event("getgrnam",
             [group |-> group_name, found |-> entry.found, members |-> entry.members]))

\* Line 60: grp.getgrnam(group_name), without condition, in every check.
getgrnam(lg, group_name, entry) ==
    Append(lg, Event("getgrnam",
        [group |-> group_name, found |-> entry.found, members |-> entry.members]))

\* The name replaces the set instead of joining it.
groups_assign(groups, group_name) == {group_name}

\* Lines 64 and 79: req.context.get("groups").add(group_name).
groups_add(groups, group_name) == groups \cup {group_name}

\* Lines 58-65.
posix_check_group_membership ==
    /\ AtGate("posix_check_group_membership")
    /\ \E entry \in GroupEntries :
          LET group_name == gates[gi].group
              members == entry.members
              lg == getgrnam(log, group_name, entry)
          IN  IF ~entry.found
              THEN /\ Abort("KeyError")
                   /\ log' = lg
                   /\ UNCHANGED <<gi, context>>
              ELSE IF ~Has("user")
              THEN /\ Abort("AttributeError")
                   /\ log' = lg
                   /\ UNCHANGED <<gi, context>>
              ELSE IF ~PosixMember(Get("user"), members)
              THEN /\ Abort("HTTPForbidden")
                   /\ log' = lg
                   /\ UNCHANGED <<gi, context>>
              ELSE /\ context' = [context EXCEPT !["groups"] = groups_add(@, group_name)]
                   /\ log' = Append(lg, Event("member", [group |-> group_name, gate |-> gi]))
                   /\ CallNext
                   /\ outcome' = outcome
    /\ UNCHANGED <<fixed, req, resp_headers, gss>>

\* Results of the search for the group with the user's dn as member: lines 71-73.
GroupSearchResults ==
    LET group == Entry(<<"cn=group,dc=example">>,
                       [member |-> <<"cn=alice,dc=example">>])
    IN  {<< >>, <<Referral>>, <<Referral, group>>}

\* Lines 67-84.  Line 70 reads user.dn, which only ldap_account_info sets;
\* line 71 calls search_s on context.get("ldap_conn"); line 77 formats the user.
ldap_check_group_membership ==
    /\ AtGate("ldap_check_group_membership")
    /\ IF ~Has("user") \/ "dn" \notin DOMAIN Get("user") \/ ~Has("ldap_conn")
       THEN /\ Abort("AttributeError")
            /\ UNCHANGED <<gi, context, log>>
       ELSE \E r \in GroupSearchResults :
            LET group_name == gates[gi].group
                lg == Append(log, Event("search_s.member",
                          [group |-> group_name, found |-> FirstWithDn(r, 1) # 0]))
            IN  IF FirstWithDn(r, 1) = 0
                THEN /\ Abort("ValueError")
                     /\ log' = lg
                     /\ UNCHANGED <<gi, context>>
                ELSE IF ~Format(Get("user")).ok
                THEN /\ Abort(Format(Get("user")).exc)
                     /\ log' = lg
                     /\ UNCHANGED <<gi, context>>
                ELSE /\ context' = [context EXCEPT !["groups"] = groups_add(@, group_name)]
                     /\ log' = Append(lg, Event("member", [group |-> group_name, gate |-> gi]))
                     /\ CallNext
                     /\ outcome' = outcome
    /\ UNCHANGED <<fixed, req, resp_headers, gss>>

(***************************************************************************)
(* The protected operation, and the return through the decorators.         *)
(***************************************************************************)

\* The operation every decorator wraps: it returns or raises.
Operation ==
    /\ pc = "gate"
    /\ gi > Len(gates)
    /\ \E result \in {"returned", "OperationError"} :
          /\ log' = Append(log, Event("func", result))
          /\ IF result = "returned"
             THEN pc' = "return" /\ outcome' = outcome
             ELSE Abort(result)
    /\ UNCHANGED <<fixed, gi, req, context, resp_headers, gss>>

\* Lines 148-150: ldap_account_info, when func has returned, unbinds the
\* connection of the context; every other decorator returns func's value.
Return ==
    /\ pc = "return"
    /\ log' = IF ~Bypass /\ config.ACCOUNTS_BACKEND = "ldap"
              THEN Append(log, Event("unbind_s", Get("ldap_conn").by))
              ELSE log
    /\ pc' = "done"
    /\ outcome' = "returned"
    /\ UNCHANGED <<fixed, gi, req, context, resp_headers, gss>>

Next ==
    \/ Decorate
    \/ Request
    \/ kerberos_authenticate
    \/ kerberos_step
    \/ kerberos_user
    \/ kerberos_clean
    \/ kerberos_result
    \/ ldap_authenticate
    \/ pam_authenticate
    \/ posix_account_info
    \/ ldap_account_info
    \/ ldap_account_info_search
    \/ account_info_unsupported
    \/ whitelist_authorize
    \/ posix_check_group_membership
    \/ ldap_check_group_membership
    \/ Operation
    \/ Return

Spec == Init /\ [][Next]_vars

(***************************************************************************)
(* User() on its own: the constructor applied to raw principals.           *)
(***************************************************************************)

\* Raw principals: every string of at most MaxLen tokens.
RawPrincipals == UNION {[1..n -> {"alice", "@", "example.com"}] : n \in 0..MaxLen}

InitUser ==
    /\ config = [AUTHENTICATION_BACKENDS |-> {"pam"}, ACCOUNTS_BACKEND |-> "posix",
                 AUTHORIZATION_BACKEND |-> "whitelist", LDAP_SERVERS |-> << >>]
    /\ optional = FALSE
    /\ gates = << >>
    /\ pc = "User"
    /\ gi = 0
    /\ req = NoneObj
    /\ context = << >>
    /\ resp_headers = << >>
    /\ gss = [state |-> "none", result |-> "none"]
    /\ outcome = "none"
    /\ log = << >>
    /\ raw \in RawPrincipals
    /\ identity = NoneObj

\* User(raw): lines 36-43.
User_init ==
    /\ pc = "User"
    /\ identity' = User(raw)
    /\ pc' = "done"
    /\ UNCHANGED <<config, optional, gates, gi, req, context, resp_headers, gss,
                   outcome, log, raw>>

NextUser == User_init

SpecUser == InitUser /\ [][NextUser]_vars

(***************************************************************************)
(* Properties.                                                             *)
(***************************************************************************)

Done == pc = "done"
Arrived == req # NoneObj
FuncRan == Logged("func")
UserSet == Has("user")
Backend(b) == config.AUTHENTICATION_BACKENDS = {b}
NoCredentials == Arrived /\ req.auth = NoneObj

\* The challenge of a backend: Negotiate for kerberos, Basic for ldap and pam.
ChallengeOf ==
    <<"WWW-Authenticate", IF Backend("kerberos") THEN "Negotiate" ELSE "Basic">>

\* What a request without credentials ends in, by the claim.
RefusedWithChallenge ==
    /\ outcome = "HTTPUnauthorized"
    /\ resp_headers = <<ChallengeOf>>
    /\ ~UserSet
    /\ ~FuncRan

\* C1, as stated: under each of the three backends, every request without an
\* Authorization header ends as Unauthorized with the backend's challenge
\* header, context.user unset and the wrapped operation not run.
C1_AsStated ==
    (Done /\ NoCredentials) => RefusedWithChallenge

\* C1, amended: the same, for every request that login_optional does not let
\* through (optional with the "authenticate" parameter not true calls the
\* wrapped operation without looking at the header).
C1_NoCredentialsChallenged ==
    (Done /\ NoCredentials /\ ~(optional /\ ~req.authenticate))
        => RefusedWithChallenge

\* C1 witness: a request without header refused under login_optional with
\* authenticate=true, on the Kerberos backend.
C1_Witness ==
    /\ Done /\ NoCredentials /\ optional /\ req.authenticate
    /\ Backend("kerberos")
    /\ outcome = "HTTPUnauthorized"
    /\ resp_headers = << <<"WWW-Authenticate", "Negotiate">> >>

\* What the provider of the configured backend answered in this request.
StepCompleted == gss.result = "AUTH_GSS_COMPLETE"
StepFailed == gss.result \in {"GSSError", "KrbError"}
BindAccepted ==
    \E i \in 1..Len(log) : log[i].ev = "simple_bind_s" /\ log[i].arg.result = "ok"
BindRejected ==
    \E i \in 1..Len(log) : log[i].ev = "simple_bind_s" /\ log[i].arg.result # "ok"
PamAccepted ==
    \E i \in 1..Len(log) : log[i].ev = "simplepam.authenticate" /\ log[i].arg.result

\* The context came with a bound connection, which ldap_authenticate reuses.
ConnSupplied == Has("ldap_conn") /\ Get("ldap_conn").by = "caller"

ExchangeSucceeded ==
    \/ Backend("kerberos") /\ StepCompleted
    \/ Backend("ldap") /\ (BindAccepted \/ ConnSupplied)
    \/ Backend("pam") /\ PamAccepted

\* The request was ended by the authentication stage, as Unauthorized or Forbidden.
RefusedByAuthentication ==
    /\ Done /\ Arrived
    /\ outcome \in {"HTTPUnauthorized", "HTTPForbidden"}
    /\ ~Logged("authenticated")

\* C2, as stated: context.user is set only if the exchange of the configured
\* backend has succeeded, and every request the authentication stage ends as
\* Unauthorized or Forbidden ends with context.user unset.
C2_AsStated ==
    /\ UserSet => ExchangeSucceeded
    /\ RefusedByAuthentication => ~UserSet

\* C3, as stated: on the Kerberos path a request whose init succeeded has
\* cleaned the GSSAPI context exactly once when it ends, and a request whose
\* step failed ends as Forbidden, context cleaned, operation not run.
C3_AsStated ==
    (Done /\ gss.state # "none") =>
        /\ Count("authGSSServerClean") = 1
        /\ StepFailed => (outcome = "HTTPForbidden" /\ ~FuncRan)

\* The part of C3 about the number of clean-ups alone.
C3_CleanedOnce ==
    (Done /\ gss.state # "none") => Count("authGSSServerClean") = 1

\* The authentication stage of this request looked at the header.
Required == Arrived /\ ~(optional /\ ~req.authenticate)

\* C4: on the LDAP path a header that is not of the Basic scheme ends the
\* request as Forbidden with no bind attempted; a Basic header whose bind is
\* rejected ends it as Unauthorized with a Basic challenge header added; in
\* both cases context.user stays unset and the wrapped operation does not run.
C4_LdapRefusals ==
    (Done /\ Required /\ Backend("ldap")) =>
        /\ (req.auth # NoneObj /\ req.auth.scheme # "Basic") =>
              /\ outcome = "HTTPForbidden"
              /\ ~Logged("simple_bind_s")
              /\ ~UserSet /\ ~FuncRan
        /\ BindRejected =>
              /\ req.auth.scheme = "Basic"
              /\ outcome = "HTTPUnauthorized"
              /\ resp_headers = << <<"WWW-Authenticate", "Basic">> >>
              /\ ~UserSet /\ ~FuncRan

\* C4 witness: a Basic header whose bind the directory rejected.
C4_Witness ==
    /\ Done /\ Backend("ldap") /\ BindRejected
    /\ outcome = "HTTPUnauthorized"

\* The first gate is authorize_admin under the whitelist backend, and it has
\* decided: it raised (the call chain stopped at gate 1) or called its func.
WhitelistDecided ==
    /\ config.AUTHORIZATION_BACKEND = "whitelist"
    /\ Len(gates) >= 1
    /\ gates[1].kind = "authorize_admin"
    /\ \/ Done /\ gi = 1
       \/ gi > 1
WhitelistPassed == WhitelistDecided /\ gi > 1

\* C5, as stated: the whitelist check lets the wrapped operation run if and
\* only if the string representation of the authenticated identity is in the
\* configured whitelist; every other identity ends as Forbidden.
C5_AsStated ==
    (WhitelistDecided /\ UserSet) =>
        /\ WhitelistPassed <=> Str(User_repr(Get("user"))) \in ADMIN_WHITELIST
        /\ ~WhitelistPassed => outcome = "HTTPForbidden"

\* Position in the log, and the groups whose check had passed before it.
PassedBefore(i) == {log[j].arg.group : j \in {k \in 1..(i - 1) : log[k].ev = "member"}}

\* C6: with the posix backend, a check of group g for an authenticated user
\* whose name is in g's member list adds g to context.groups and calls the
\* wrapped func; when the name is not in the list the request ends as
\* Forbidden, context.groups is as it was and the operation does not run.
C6_PosixMembership ==
    \A i \in 1..Len(log) :
        (log[i].ev = "getgrnam" /\ log[i].arg.found /\ UserSet) =>
            IF Get("user").name \in log[i].arg.members
            THEN /\ i < Len(log)
                 /\ log[i + 1].ev = "member"
                 /\ log[i + 1].arg.group = log[i].arg.group
                 /\ log[i].arg.group \in Get("groups")
                 /\ (i + 1 = Len(log)) => (pc = "gate" /\ gi = log[i + 1].arg.gate + 1)
            ELSE /\ i = Len(log)
                 /\ Done
                 /\ outcome = "HTTPForbidden"
                 /\ Get("groups") = PassedBefore(i)
                 /\ ~FuncRan

\* C6 witness: the second of two stacked checks refused a user the first
\* had let through.
C6_Witness ==
    /\ Done /\ outcome = "HTTPForbidden"
    /\ Len(log) >= 1 /\ log[Len(log)].ev = "getgrnam"
    /\ UserSet /\ Get("groups") # {}

\* C7, as stated: with authentication=pam, authorization=whitelist and
\* accounts=posix, a request through login_required and authorize_admin with
\* accepted credentials of a local user whose name is in the whitelist runs
\* the operation exactly once, context.user.mail being "<name>@<domain>".
C7_AsStated ==
    (/\ Done /\ Arrived
     /\ Backend("pam")
     /\ config.AUTHORIZATION_BACKEND = "whitelist"
     /\ config.ACCOUNTS_BACKEND = "posix"
     /\ ~optional
     /\ gates = <<[kind |-> "authorize_admin", group |-> ADMINS_GROUP]>>
     /\ PamAccepted
     /\ Logged("enriched")
     /\ Str(Get("user").name) \in ADMIN_WHITELIST)
        => /\ Count("func") = 1
           /\ Get("user").mail = Get("user").name \o <<"@">> \o constants_DOMAIN

\* Index of the first event ev of the log; 0 when there is none.
Pos(ev) ==
    IF Logged(ev) THEN CHOOSE i \in 1..Len(log) :
                           log[i].ev = ev /\ \A j \in 1..(i - 1) : log[j].ev # ev
    ELSE 0

\* The operation ran after authentication had succeeded and enrichment had
\* then completed.
AuthenticatedThenEnriched ==
    /\ ExchangeSucceeded
    /\ 0 < Pos("authenticated")
    /\ Pos("authenticated") < Pos("enriched")
    /\ Pos("enriched") < Pos("func")

\* C8, as stated: in every request to an operation wrapped with authenticate,
\* the operation executes only after authentication has succeeded and
\* enrichment has then completed; if enrichment raises, it never executes.
C8_AsStated ==
    /\ FuncRan => AuthenticatedThenEnriched
    /\ (Done /\ Logged("authenticated") /\ ~Logged("enriched")) => ~FuncRan

\* C8, amended: the same, for every request that login_optional does not let
\* through to the operation unauthenticated.
C8_AuthenticateEnrichRun ==
    /\ (FuncRan /\ Required) => AuthenticatedThenEnriched
    /\ (Done /\ Logged("authenticated") /\ ~Logged("enriched")) => ~FuncRan

\* C8 witness: the operation has run behind login_required on the Kerberos
\* backend.
C8_Witness ==
    /\ Done /\ FuncRan /\ ~optional
    /\ Backend("kerberos")
    /\ Logged("enriched")

\* C9, as stated: a connection that ldap_account_info opened is unbound once
\* the func it wraps has completed, normally or with an error; a connection
\* the context already held when enrichment started is not unbound.
C9_AsStated ==
    (Done /\ Logged("enriched") /\ Has("ldap_conn")) =>
        IF Get("ldap_conn").by = "ldap_account_info"
        THEN Count("unbind_s") = 1
        ELSE ~Logged("unbind_s")

\* C10, as stated: User(raw) succeeds for every raw principal; with an "@" in
\* raw the name is the part before it and the domain the part after it,
\* without one the name is raw and the domain unset.
C10_AsStated ==
    pc = "done" =>
        /\ identity.ok
        /\ IF Contains(raw, "@")
           THEN /\ identity.val.name = SubSeq(raw, 1, Find(raw, "@") - 1)
                /\ identity.val.domain = SubSeq(raw, Find(raw, "@") + 1, Len(raw))
           ELSE /\ identity.val.name = raw
                /\ identity.val.domain = None

(***************************************************************************)
(* C11.  Every request that ended as Unauthorized, whatever the backend    *)
(* and the cause, carries the WWW-Authenticate challenge of its backend    *)
(* in the response headers.                                                *)
(***************************************************************************)
C11_AsStated ==
    (Done /\ Arrived /\ outcome = "HTTPUnauthorized")
        => \E i \in 1..Len(resp_headers) : resp_headers[i] = ChallengeOf

(***************************************************************************)
(* C12.  On the LDAP path with no connection in the context the binds go   *)
(* through the configured servers in order, an unreachable server is       *)
(* skipped for the next one, and only when every server was unreachable    *)
(* does the request end, as a fatal error that is neither Unauthorized nor *)
(* Forbidden; with a connection already in the context nothing is bound.   *)
(***************************************************************************)
Binds == SelectSeq(log, LAMBDA e : e.ev = "simple_bind_s")

C12_AsStated ==
    Backend("ldap") =>
        /\ \A k \in 1..Len(Binds) :
              /\ k <= Len(config.LDAP_SERVERS)
              /\ Binds[k].arg.server = config.LDAP_SERVERS[k]
              /\ k < Len(Binds) => Binds[k].arg.result = "SERVER_DOWN"
        /\ (Done /\ Binds # << >> /\ Binds[Len(Binds)].arg.result = "SERVER_DOWN")
              => /\ Len(Binds) = Len(config.LDAP_SERVERS)
                 /\ outcome \notin {"HTTPUnauthorized", "HTTPForbidden"}
        /\ ConnSupplied => Binds = << >>

(***************************************************************************)
(* C13.  Within one request a membership check for a group that is already *)
(* in context.groups does not query the group backend again; checks for    *)
(* distinct group names each query the backend.                            *)
(***************************************************************************)
IsQuery(e) == e.ev \in {"getgrnam", "search_s.member"}

C13_AsStated ==
    /\ \A i \in 1..Len(log) : IsQuery(log[i]) => log[i].arg.group \notin PassedBefore(i)
    /\ \A i \in 1..Len(log) :
          log[i].ev = "member" =>
              \E j \in 1..(i - 1) : IsQuery(log[j]) /\ log[j].arg.group = log[i].arg.group

\* C13, amended: every membership check that passes has asked the group
\* backend itself, in the step before, also when the name of its group was
\* already in context.groups: as many queries as checks, nothing is
\* remembered between the checks of a request.
C13_EveryCheckQueries ==
    \A i \in 1..Len(log) :
        log[i].ev = "member" =>
            /\ i > 1
            /\ IsQuery(log[i - 1])
            /\ log[i - 1].arg.group = log[i].arg.group
            /\ Cardinality({j \in 1..i : IsQuery(log[j])}) >= log[i].arg.gate

\* Two checks of the same group passed, each after a query of its own.
C13_Witness ==
    /\ Len(gates) = 2
    /\ gates[1].group = gates[2].group
    /\ Cardinality({i \in 1..Len(log) : log[i].ev = "member"}) = 2
    /\ Cardinality({i \in 1..Len(log) : IsQuery(log[i])}) = 2
    /\ FuncRan

(***************************************************************************)
(* C14.  On the Kerberos path a failed init or a failed step ends the      *)
(* request as Forbidden; a failed clean-up ends it as Unauthorized, after  *)
(* a step that succeeded and after a step that failed alike; the result    *)
(* 'continue' ends it as Unauthorized; the wrapped operation runs in none  *)
(* of these cases.                                                         *)
(***************************************************************************)
InitFailed ==
    \E i \in 1..Len(log) : log[i].ev = "authGSSServerInit" /\ log[i].arg # "ok"
CleanFailed ==
    \E i \in 1..Len(log) : log[i].ev = "authGSSServerClean" /\ log[i].arg # "ok"

C14_AsStated ==
    (Done /\ Backend("kerberos")) =>
        /\ InitFailed => (outcome = "HTTPForbidden" /\ ~FuncRan)
        /\ (StepFailed /\ ~CleanFailed) => (outcome = "HTTPForbidden" /\ ~FuncRan)
        /\ CleanFailed => (outcome = "HTTPUnauthorized" /\ ~FuncRan)
        /\ (gss.result = "AUTH_GSS_CONTINUE" /\ Logged("authGSSServerClean"))
              => (outcome = "HTTPUnauthorized" /\ ~FuncRan)

(***************************************************************************)
(* C15.  With the ldap authorization backend a check member_of(g) whose    *)
(* directory search returns an entry with a non-empty DN adds g to         *)
(* context.groups and runs the wrapped operation; when the search returns  *)
(* no such entry the request ends with an error that is neither Forbidden  *)
(* nor Unauthorized, context.groups is as before and the operation has not *)
(* run.                                                                    *)
(***************************************************************************)
C15_AsStated ==
    \A i \in 1..Len(log) :
        log[i].ev = "search_s.member" =>
            IF log[i].arg.found
            THEN /\ i < Len(log)
                 /\ log[i + 1].ev = "member"
                 /\ log[i + 1].arg.group = log[i].arg.group
                 /\ log[i].arg.group \in Get("groups")
                 /\ gi > log[i + 1].arg.gate
            ELSE /\ i = Len(log)
                 /\ Done
                 /\ outcome \notin {"none", "returned", "HTTPForbidden", "HTTPUnauthorized"}
                 /\ Get("groups") = PassedBefore(i)
                 /\ ~FuncRan

(***************************************************************************)
(* C16.  context.groups is the empty set when authentication succeeds;     *)
(* from then on it only grows, no step removes an element; and it holds a  *)
(* group name only if a membership check of that name succeeded in this    *)
(* request.                                                                *)
(***************************************************************************)
Passed == PassedBefore(Len(log) + 1)

C16_GroupsOnlyGrow ==
    /\ []((log # << >> /\ log[Len(log)].ev = "authenticated")
             => (Has("groups") /\ Get("groups") = {}))
    /\ [](Has("groups") => Get("groups") \subseteq Passed)
    /\ [][Has("groups") => /\ (Has("groups"))'
                           /\ Get("groups") \subseteq (Get("groups"))']_vars

\* Two checks of different groups passed and both names are in the set.
C16_Witness ==
    /\ Has("groups")
    /\ Cardinality(Get("groups")) = 2
    /\ Get("groups") = Passed
    /\ FuncRan

(***************************************************************************)
(* C17.  On each of the three dispatch axes (authentication, accounts,     *)
(* authorization backend) a configured value that the dispatch does not    *)
(* know raises the not-supported error the first time the capability is    *)
(* needed (authentication and authorization: when the decorators are       *)
(* applied; accounts: when account_info is reached in a request), and no   *)
(* operation wrapped through that dispatch point ever runs; a value it     *)
(* knows selects one strategy, and no other strategy acts in the request.  *)
(***************************************************************************)
AuthenticationEvents(b) ==
    IF b = "kerberos"
    THEN {"authGSSServerInit", "authGSSServerStep", "authGSSServerClean"}
    ELSE IF b = "ldap" THEN {"simple_bind_s"}
    ELSE {"simplepam.authenticate"}
AccountsEvents(b) ==
    IF b = "ldap" THEN {"sasl_interactive_bind_s", "search_s", "unbind_s"} ELSE {}
AuthorizationEvents(b) ==
    IF b = "posix" THEN {"getgrnam"}
    ELSE IF b = "ldap" THEN {"search_s.member"}
    ELSE {}
LoggedWith(ev, arg) == \E i \in 1..Len(log) : log[i].ev = ev /\ log[i].arg = arg

KnownAuthentication ==
    \E b \in {"kerberos", "ldap", "pam"} : config.AUTHENTICATION_BACKENDS = {b}
KnownAccounts == config.ACCOUNTS_BACKEND \in {"posix", "ldap"}
KnownAuthorization ==
    \A i \in 1..Len(gates) :
        \/ config.AUTHORIZATION_BACKEND \in {"posix", "ldap"}
        \/ gates[i].kind = "authorize_admin" /\ config.AUTHORIZATION_BACKEND = "whitelist"

C17_Dispatch ==
    /\ (~KnownAuthentication \/ ~KnownAuthorization) =>
          /\ pc \in {"import", "done"}
          /\ Done => outcome = "NotImplementedError"
          /\ ~Arrived /\ log = << >>
    /\ ~KnownAccounts =>
          /\ ~Logged("enriched")
          /\ Logged("authenticated") =>
                /\ pc \in {"account_info", "done"}
                /\ Done => outcome = "NotImplementedError"
                /\ ~FuncRan
    /\ \A b \in {"kerberos", "ldap", "pam"} :
          ((\E e \in AuthenticationEvents(b) : Logged(e)) \/ LoggedWith("authenticated", b))
              => config.AUTHENTICATION_BACKENDS = {b}
    /\ \A b \in {"posix", "ldap"} :
          ((\E e \in AccountsEvents(b) : Logged(e)) \/ LoggedWith("enriched", b))
              => config.ACCOUNTS_BACKEND = b
    /\ \A b \in {"posix", "ldap"} :
          (\E e \in AuthorizationEvents(b) : Logged(e))
              => config.AUTHORIZATION_BACKEND = b
    /\ Count("authenticated") <= 1
    /\ Count("enriched") <= 1

\* The accounts backend is not known, and the request that authenticated
\* has ended with the not-supported error.
C17_Witness ==
    /\ Done
    /\ ~KnownAccounts
    /\ Logged("authenticated")
    /\ outcome = "NotImplementedError"

(***************************************************************************)
(* C18.  An operation wrapped by authorize_admin never runs in a request   *)
(* whose context.user is unset when the check is made (a request that      *)
(* login_optional let through without authentication), under the whitelist *)
(* and under both group backends; and whenever an administrative check has *)
(* let a request through, the authentication of that request succeeded     *)
(* before the check.                                                       *)
(***************************************************************************)
AdminGates == {k \in 1..Len(gates) : gates[k].kind = "authorize_admin"}

C18_AdminNeedsUser ==
    /\ \A k \in AdminGates :
          gi > k =>
              /\ UserSet
              /\ ExchangeSucceeded
              /\ Logged("authenticated")
              /\ \A i \in 1..Len(log) :
                    (log[i].ev = "member" /\ log[i].arg.gate = k)
                        => Pos("authenticated") < i
    /\ (FuncRan /\ AdminGates # {}) =>
          /\ UserSet
          /\ Logged("authenticated")
          /\ Pos("authenticated") < Pos("func")

\* A request without a user has come to an administrative check, under a
\* group backend, and has ended there.
C18_Witness ==
    /\ Done
    /\ optional /\ Arrived /\ ~req.authenticate
    /\ ~UserSet
    /\ gi \in AdminGates
    /\ outcome = "AttributeError"
    /\ ~FuncRan

(***************************************************************************)
(* C19.  Under login_optional, a request whose 'authenticate' parameter is *)
(* not true has the wrapped operation called directly, under every         *)
(* authentication backend and whatever its Authorization header: no        *)
(* exchange with the provider, no enrichment, no response header added,    *)
(* and user, groups and ldap_conn of the request context left as they      *)
(* were.                                                                   *)
(***************************************************************************)
LetThrough == Arrived /\ optional /\ ~req.authenticate

C19_OptionalBypass ==
    /\ []((LetThrough /\ pc # "authenticate") =>
             /\ pc \in {"gate", "return", "done"}
             /\ gi >= 1
             /\ \A i \in 1..Len(log) : log[i].ev \in {"getgrnam", "func"}
             /\ resp_headers = << >>
             /\ gss = [state |-> "none", result |-> "none"]
             /\ context \in InitialContexts
             /\ ~Has("user") /\ ~Has("groups"))
    /\ [][LetThrough => context' = context]_vars

\* A request with a Negotiate header was let through to the operation, on
\* the Kerberos path, by login_optional.
C19_Witness ==
    /\ Done
    /\ LetThrough
    /\ Backend("kerberos")
    /\ req.auth # NoneObj
    /\ req.auth.scheme = "Negotiate"
    /\ log = <<Event("func", "returned")>>
    /\ outcome = "returned"

====
